---------------------------- MODULE Spec2Model ----------------------------
(***************************************************************************)
(* Model of the departures aggregator (src/app.py): configuration          *)
(* grouping, filter matching, delay status, per-stop fetch, per-group      *)
(* aggregation with deviation de-duplication, and the single-slot TTL      *)
(* result cache, driven by one or several callers of get_data.             *)
(*                                                                         *)
(* JSON objects are functions from key to value (records); a key that is   *)
(* absent from the object is absent from the DOMAIN.  Python strings whose *)
(* characters matter (destinations, line designations) are sequences of    *)
(* one-character strings; Text() turns one into the string that is shown.  *)
(***************************************************************************)
EXTENDS Integers, Sequences, FiniteSets, TLC

VARIABLES
    config_file,    \* config.json on disk: [mtime, ok, data], or [mtime, ok, fault]
    config_cache,   \* _config_cache: [data, grouped, mtime]
    cache,          \* _cache: [data, timestamp]
    now,            \* datetime.now(), in whole seconds
    pc,             \* per caller: position inside get_data
    loc,            \* per caller: the locals of get_data
    fetched,        \* per caller, per stop: get_departures calls of the cycle
    stamped,        \* the payload of the cache_data call that wrote the timestamp
    probe           \* one call of a pure function: its arguments and result

vars == <<config_file, config_cache, cache, now, pc, loc, fetched, stamped, probe>>

(***************************************************************************)
(* Python values                                                           *)
(***************************************************************************)
None == [tag |-> "None"]

\* an object without keys other than the model's own type tag
EmptyRec == [type |-> "object"]

Some(v) == [tag |-> "Some", val |-> v]

IsNone(x) == x.tag = "None"

\* dict.get(key, default)
Get(d, k, default) == IF k \in DOMAIN d THEN d[k] ELSE default

\* A line designation is a JSON string, a JSON number, or missing (None).
StrVal(s) == [t |-> "str", s |-> s]

IntVal(n) == [t |-> "int", n |-> n]

NoneVal == [t |-> "none"]

Digits == <<"0", "1", "2", "3", "4", "5", "6", "7", "8", "9">>

RECURSIVE IntToStr(_)
\* str(n) of a non-negative int, digit by digit
IntToStr(n) ==
    IF n < 10 THEN <<Digits[n + 1]>>
    ELSE Append(IntToStr(n \div 10), Digits[(n % 10) + 1])

\* str(x)
Str(x) ==
    CASE x.t = "str" -> x.s
      [] x.t = "int" -> IntToStr(x.n)
      [] OTHER -> <<"N", "o", "n", "e">>

\* bool(x): the truth value Python gives a designation
Truthy(x) ==
    CASE x.t = "str" -> x.s # <<>>
      [] x.t = "int" -> x.n # 0
      [] OTHER -> FALSE

RECURSIVE Text(_)
\* the characters of s as one string
Text(s) == IF s = <<>> THEN "" ELSE Head(s) \o Text(Tail(s))

UpperChars == <<"S", "O", "L", "U">>

LowerChars == <<"s", "o", "l", "u">>

\* str.lower() of one character
LowerChar(c) ==
    IF \E i \in 1..Len(UpperChars) : UpperChars[i] = c
    THEN LowerChars[CHOOSE i \in 1..Len(UpperChars) : UpperChars[i] = c]
    ELSE c

\* str.lower()
Lower(s) == [i \in 1..Len(s) |-> LowerChar(s[i])]

\* sub in s
Contains(sub, s) ==
    \E off \in 0..(Len(s) - Len(sub)) :
        \A k \in 1..Len(sub) : s[off + k] = sub[k]

(***************************************************************************)
(* get_config: the grouping built from monitored_routes.  A dict is kept   *)
(* as the sequence of its items in insertion order.                        *)
(***************************************************************************)
HasKey(items, k) == \E i \in 1..Len(items) : items[i].key = k

IndexOf(items, k) == CHOOSE i \in 1..Len(items) : items[i].key = k

Lookup(items, k) == items[IndexOf(items, k)].val

Keys(items) == [i \in 1..Len(items) |-> items[i].key]

\* the filter appended for one route: line as string, dest lowercased
RouteFilter(route) == [line |-> Str(route.line), dest |-> Lower(route.dest)]

\* one iteration of the loop over monitored_routes
AddRoute(grouped, route) ==
    LET g1 == IF HasKey(grouped, route.group) THEN grouped
              ELSE Append(grouped, [key |-> route.group, val |-> <<>>])
        gi == IndexOf(g1, route.group)
        sites == g1[gi].val
        s1 == IF HasKey(sites, route.id) THEN sites
              ELSE Append(sites, [key |-> route.id,
                                  val |-> [label |-> Get(route, "label", None),
                                           filters |-> <<>>]])
        si == IndexOf(s1, route.id)
        s2 == [s1 EXCEPT ![si].val.filters = Append(@, RouteFilter(route))]
    IN  [g1 EXCEPT ![gi].val = s2]

RECURSIVE BuildGrouped(_, _)
\* grouped after the routes still to be read have been added
BuildGrouped(grouped, routes) ==
    IF routes = <<>> THEN grouped
    ELSE BuildGrouped(AddRoute(grouped, Head(routes)), Tail(routes))

(***************************************************************************)
(* matches_filter                                                          *)
(***************************************************************************)
RECURSIVE MatchLoopNoLower(_, _, _)
MatchLoopNoLower(line_str, destination, filters) ==
    IF filters = <<>> THEN FALSE
    ELSE IF line_str = Head(filters).line /\ Contains(Head(filters).dest, destination)
         THEN TRUE
         ELSE MatchLoopNoLower(line_str, destination, Tail(filters))

\* the same without lowercasing the destination
matches_filter_no_lower(line_num, destination, filters) ==
    MatchLoopNoLower(Str(line_num), destination, filters)

RECURSIVE MatchLoop(_, _, _)
\* the for loop: the first matching criteria returns True
MatchLoop(line_str, dest_lower, filters) ==
    IF filters = <<>> THEN FALSE
    ELSE IF line_str = Head(filters).line /\ Contains(Head(filters).dest, dest_lower)
         THEN TRUE
         ELSE MatchLoop(line_str, dest_lower, Tail(filters))

matches_filter(line_num, destination, filters) ==
    MatchLoop(Str(line_num), Lower(destination), filters)


(***************************************************************************)
(* parse_datetime and calculate_delay_status.  A timestamp is the time of  *)
(* day of an ISO 8601 string, "HH:MM:SS" followed by nothing (a naive      *)
(* time), by "Z" or by an offset "+HH:MM"; all timestamps are on one date. *)
(***************************************************************************)
IsDigit(c) == \E i \in 1..10 : Digits[i] = c

DigitVal(c) == (CHOOSE i \in 1..10 : Digits[i] = c) - 1

TwoDigits(s, i) == 10 * DigitVal(s[i]) + DigitVal(s[i + 1])

RECURSIVE ReplaceZ(_)
\* iso_string.replace('Z', '+00:00')
ReplaceZ(s) ==
    IF s = <<>> THEN <<>>
    ELSE (IF Head(s) = "Z" THEN <<"+", "0", "0", ":", "0", "0">> ELSE <<Head(s)>>)
         \o ReplaceZ(Tail(s))

\* the shape "dd:dd" at position i, both numbers in range
ClockShape(s, i, maxh) ==
    /\ IsDigit(s[i]) /\ IsDigit(s[i + 1]) /\ s[i + 2] = ":"
    /\ IsDigit(s[i + 3]) /\ IsDigit(s[i + 4])
    /\ TwoDigits(s, i) < maxh /\ TwoDigits(s, i + 3) < 60

\* datetime.fromisoformat: the datetime, or None for a ValueError
FromIsoFormat(s) ==
    LET timeOk == /\ Len(s) \in {8, 14}
                  /\ ClockShape(s, 1, 24)
                  /\ s[6] = ":" /\ IsDigit(s[7]) /\ IsDigit(s[8])
                  /\ TwoDigits(s, 7) < 60
        zoneOk == Len(s) = 14 => /\ s[9] \in {"+", "-"}
                                 /\ ClockShape(s, 10, 24)
        wall == 3600 * TwoDigits(s, 1) + 60 * TwoDigits(s, 4) + TwoDigits(s, 7)
        off == IF Len(s) = 14
               THEN (IF s[9] = "-" THEN -1 ELSE 1)
                    * (3600 * TwoDigits(s, 10) + 60 * TwoDigits(s, 13))
               ELSE 0
    IN  IF timeOk /\ zoneOk
        THEN Some([wall |-> wall, aware |-> (Len(s) = 14), off |-> off])
        ELSE None

\* parse_datetime; iso is None (tag "None") or Some(string)
parse_datetime(iso) ==
    IF IsNone(iso) \/ iso.val = <<>> THEN None
    ELSE FromIsoFormat(ReplaceZ(iso.val))

\* a or b, for optional strings
OrElse(a, b) == IF IsNone(a) \/ a.val = <<>> THEN b ELSE a

\* the instant a datetime stands for, in seconds
Instant(dt) == dt.wall - dt.off

\* int(x / 60) for a float x: truncation toward zero
IntMinutes(secs) == IF secs >= 0 THEN secs \div 60 ELSE -((-secs) \div 60)

\* str(n) of any int
StrInt(n) == IF n < 0 THEN <<"-">> \o IntToStr(-n) ELSE IntToStr(n)

\* the same with floor division instead of truncation
StatusOfFloor(delta_seconds) ==
    IF delta_seconds > 60
    THEN "+" \o Text(StrInt(delta_seconds \div 60)) \o " min"
    ELSE IF delta_seconds < -60
         THEN Text(StrInt(delta_seconds \div 60)) \o " min"
         ELSE "On Time"

\* the three branches on delta_minutes = delta_seconds / 60
StatusOf(delta_seconds) ==
    IF delta_seconds > 60
    THEN "+" \o Text(StrInt(IntMinutes(delta_seconds))) \o " min"
    ELSE IF delta_seconds < -60
         THEN Text(StrInt(IntMinutes(delta_seconds))) \o " min"
         ELSE "On Time"

\* calculate_delay_status: (status, e_dt), (None, None), or the TypeError
\* of subtracting a naive datetime from an aware one
calculate_delay_status(scheduled_str, expected_str) ==
    LET s_dt == parse_datetime(scheduled_str)
        e_dt == parse_datetime(OrElse(expected_str, scheduled_str))
    IN  IF IsNone(s_dt) \/ IsNone(e_dt)
        THEN [raised |-> FALSE, status |-> None, e_dt |-> None]
        ELSE IF s_dt.val.aware # e_dt.val.aware
             THEN [raised |-> TRUE]
             ELSE [raised |-> FALSE,
                   status |-> Some(StatusOf(Instant(e_dt.val) - Instant(s_dt.val))),
                   e_dt |-> e_dt]

TwoDigitStr(n) == <<Digits[(n \div 10) + 1], Digits[(n % 10) + 1]>>

\* e_dt.strftime("%H:%M")
DisplayTime(dt) ==
    Text(TwoDigitStr(dt.wall \div 3600) \o <<":">> \o TwoDigitStr((dt.wall \div 60) % 60))

(***************************************************************************)
(* enrich_departure and get_departures.  A departure is a JSON object; its *)
(* "line" is an object with a designation, or another JSON value beside a  *)
(* flat "line_designation".  The outcome of the HTTP request is an input.  *)
(***************************************************************************)
\* the ASCII order of the characters that occur in the model's strings
AsciiOrder ==
    <<"+", "-", "0", "1", "2", "3", "4", "5", "6", "7", "8", "9", ":",
      "L", "N", "O", "S", "Z", "e", "l", "n", "o", "s">>

Ord(c) == CHOOSE i \in 1..Len(AsciiOrder) : AsciiOrder[i] = c

RECURSIVE StrLess(_, _)
\* a < b for Python strings
StrLess(a, b) ==
    IF b = <<>> THEN FALSE
    ELSE IF a = <<>> THEN TRUE
    ELSE IF Head(a) # Head(b) THEN Ord(Head(a)) < Ord(Head(b))
    ELSE StrLess(Tail(a), Tail(b))

\* the optional string stored under key k
OptStr(d, k) == IF k \in DOMAIN d THEN Some(d[k]) ELSE None

enrich_departure(departure, line_num) ==
    LET sched_str == OptStr(departure, "scheduled")
        exp_str == OrElse(OptStr(departure, "expected"), sched_str)
        r == calculate_delay_status(sched_str, exp_str)
    IN  IF r.raised THEN [raised |-> TRUE]
        ELSE IF IsNone(r.status) \/ IsNone(r.e_dt)
             THEN [raised |-> FALSE, dep |-> None]
             ELSE [raised |-> FALSE,
                   dep |-> Some([display_time |-> DisplayTime(r.e_dt.val),
                                 status_text |-> r.status.val,
                                 line_num |-> line_num] @@ departure)]

\* line_info.get('designation') if isinstance(line_info, dict)
\* else dep.get('line_designation')
LineNum(dep) ==
    LET line_info == Get(dep, "line", [type |-> "object"])
    IN  IF line_info.type = "object"
        THEN Get(line_info, "designation", NoneVal)
        ELSE Get(dep, "line_designation", NoneVal)

Unknown == <<"U", "n", "k", "n", "o", "w", "n">>

RECURSIVE FilterEnrich(_, _)
\* the loop over departures: the enriched matches in order, or the
\* exception one of them raised
FilterEnrich(departures, filters) ==
    IF departures = <<>> THEN [raised |-> FALSE, deps |-> <<>>]
    ELSE LET dep == Head(departures)
             line_num == LineNum(dep)
             destination == Get(dep, "destination", Unknown)
             rest == FilterEnrich(Tail(departures), filters)
         IN  IF matches_filter(line_num, destination, filters)
             THEN LET e == enrich_departure(dep, line_num)
                  IN  IF e.raised \/ rest.raised THEN [raised |-> TRUE]
                      ELSE IF IsNone(e.dep) THEN rest
                      ELSE [raised |-> FALSE, deps |-> <<e.dep.val>> \o rest.deps]
             ELSE rest

\* x.get('expected') or x.get('scheduled')
SortKey(x) == OrElse(OptStr(x, "expected"), OptStr(x, "scheduled")).val

RECURSIVE InsertSorted(_, _)
\* x placed after every element whose key is not greater
InsertSorted(sorted, x) ==
    IF sorted = <<>> THEN <<x>>
    ELSE IF StrLess(SortKey(x), SortKey(Head(sorted)))
         THEN <<x>> \o sorted
         ELSE <<Head(sorted)>> \o InsertSorted(Tail(sorted), x)

RECURSIVE SortByKey(_, _)
\* list.sort(key=...): stable, ascending
SortByKey(sorted, rest) ==
    IF rest = <<>> THEN sorted
    ELSE SortByKey(InsertSorted(sorted, Head(rest)), Tail(rest))

FetchFailed == [site_name |-> None, departures |-> <<>>, stop_deviations |-> <<>>]

\* get_departures after the request returned `response`
get_departures(filters, response) ==
    IF response.kind # "json" THEN FetchFailed
    ELSE LET data == response.body
             departures == Get(data, "departures", <<>>)
             stop_deviations == Get(data, "stop_deviations", <<>>)
             site_name == IF departures = <<>> THEN None
                          ELSE OptStr(Get(departures[1], "stop_area", EmptyRec), "name")
             fe == FilterEnrich(departures, filters)
         IN  IF fe.raised THEN FetchFailed
             ELSE [site_name |-> site_name,
                   departures |-> SortByKey(<<>>, fe.deps),
                   stop_deviations |-> stop_deviations]

(***************************************************************************)
(* get_data, third pass: the stations and deviations of each group.  A     *)
(* deviation is a JSON value tagged with its type; only an object has      *)
(* copy().  A collected deviation is the copy together with its lines.     *)
(***************************************************************************)
\* seq[:n]
Slice(seq, n) ==
    IF n >= 0 THEN SubSeq(seq, 1, IF n < Len(seq) THEN n ELSE Len(seq))
    ELSE SubSeq(seq, 1, IF Len(seq) + n > 0 THEN Len(seq) + n ELSE 0)

\* every departure fetched for the stop is taken for the group
GroupDeparturesUnfiltered(departures, group_filters) == departures

\* the departures of a stop that match the group's own filters
GroupDepartures(departures, group_filters) ==
    LET Matches(dep) == matches_filter(Get(dep, "line_num", NoneVal),
                                       Get(dep, "destination", <<>>),
                                       group_filters)
    IN  SelectSeq(departures, Matches)

\* label or site_name or f"Site {site_id}"
DisplayName(site_id, label, site_name) ==
    IF ~IsNone(label) /\ label.val # "" THEN label.val
    ELSE IF ~IsNone(site_name) /\ site_name.val # "" THEN site_name.val
    ELSE "Site " \o Text(IntToStr(site_id))

RECURSIVE CopyDevs(_, _)
\* d = dev.copy(); d['lines'] = lines, for each dev; raised when a dev has
\* no copy() or takes no item
CopyDevs(devs, lines) ==
    IF devs = <<>> THEN [raised |-> FALSE, devs |-> <<>>]
    ELSE LET rest == CopyDevs(Tail(devs), lines)
         IN  IF Head(devs).type # "object" \/ rest.raised THEN [raised |-> TRUE]
             ELSE [raised |-> FALSE,
                   devs |-> <<[dev |-> Head(devs), lines |-> lines]>> \o rest.devs]

\* {str(line_num)} if line_num else set()
DepLines(dep) ==
    LET line_num == Get(dep, "line_num", NoneVal)
    IN  IF Truthy(line_num) THEN {Str(line_num)} ELSE {}

RECURSIVE DepartureDevs(_)
\* the deviations attached to the departures, in order
DepartureDevs(deps) ==
    IF deps = <<>> THEN [raised |-> FALSE, devs |-> <<>>]
    ELSE LET own == CopyDevs(Get(Head(deps), "deviations", <<>>), DepLines(Head(deps)))
             rest == DepartureDevs(Tail(deps))
         IN  IF own.raised \/ rest.raised THEN [raised |-> TRUE]
             ELSE [raised |-> FALSE, devs |-> own.devs \o rest.devs]

\* the departures from which a station's deviations are collected: all
\* that match the group, shown or not
DevSourceDeps(filtered_deps, max_departures) == filtered_deps

\* the stop deviations collected whether or not the station is shown
HiddenSiteDevsCollected(site_info) ==
    LET stop_devs == CopyDevs(Get(site_info, "stop_deviations", <<>>), {})
    IN  IF stop_devs.raised THEN <<>> ELSE stop_devs.devs

\* the deviations collected for a site none of whose departures match:
\* the collection is inside `if filtered_deps:`
HiddenSiteDevs(site_info) == <<>>

\* one iteration of the loop over the sites of a group
SiteOfGroup(site_id, site_config, site_data, max_departures) ==
    LET site_info == IF HasKey(site_data, site_id) THEN Lookup(site_data, site_id)
                     ELSE EmptyRec
        departures == Get(site_info, "departures", <<>>)
        filtered_deps == GroupDepartures(departures, site_config.filters)
        stop_devs == CopyDevs(Get(site_info, "stop_deviations", <<>>), {})
        dep_devs == DepartureDevs(DevSourceDeps(filtered_deps, max_departures))
    IN  IF filtered_deps = <<>>
        THEN [raised |-> FALSE, stations |-> <<>>,
              devs |-> HiddenSiteDevs(site_info)]
        ELSE IF stop_devs.raised \/ dep_devs.raised THEN [raised |-> TRUE]
        ELSE [raised |-> FALSE,
              stations |-> <<[station |-> DisplayName(site_id, site_config.label,
                                         Get(site_info, "site_name", None)),
                              departures |-> Slice(filtered_deps, max_departures)]>>,
              devs |-> stop_devs.devs \o dep_devs.devs]

RECURSIVE SitesOfGroup(_, _, _)
\* the loop over sites.items() of one group
SitesOfGroup(sites, site_data, max_departures) ==
    IF sites = <<>> THEN [raised |-> FALSE, stations |-> <<>>, devs |-> <<>>]
    ELSE LET one == SiteOfGroup(Head(sites).key, Head(sites).val, site_data,
                                max_departures)
         IN  IF one.raised THEN [raised |-> TRUE]
             ELSE LET rest == SitesOfGroup(Tail(sites), site_data, max_departures)
                  IN  IF rest.raised THEN [raised |-> TRUE]
                      ELSE [raised |-> FALSE,
                            stations |-> one.stations \o rest.stations,
                            devs |-> one.devs \o rest.devs]

\* dev.get('message') is falsy
NoMessage(dev) == "message" \notin DOMAIN dev \/ dev.message = ""

\* a later occurrence replaces the lines instead of adding to them
MergeDevReplace(dev_map, d) ==
    IF NoMessage(d.dev) THEN dev_map
    ELSE IF ~HasKey(dev_map, d.dev.message)
         THEN Append(dev_map, [key |-> d.dev.message, val |-> d])
         ELSE [dev_map EXCEPT ![IndexOf(dev_map, d.dev.message)].val.lines = d.lines]

\* one iteration of the de-duplication loop
MergeDev(dev_map, d) ==
    IF NoMessage(d.dev) THEN dev_map
    ELSE IF ~HasKey(dev_map, d.dev.message)
         THEN Append(dev_map, [key |-> d.dev.message, val |-> d])
         ELSE [dev_map EXCEPT ![IndexOf(dev_map, d.dev.message)].val.lines =
                                  @ \cup d.lines]

RECURSIVE DedupDevs(_, _)
DedupDevs(dev_map, devs) ==
    IF devs = <<>> THEN dev_map
    ELSE DedupDevs(MergeDev(dev_map, Head(devs)), Tail(devs))

\* the sort key (len(x), x)
LineLess(a, b) == Len(a) < Len(b) \/ (Len(a) = Len(b) /\ StrLess(a, b))

RECURSIVE SortedLines(_)
\* sorted(list(lines), key=lambda x: (len(x), x))
SortedLines(lines) ==
    IF lines = {} THEN <<>>
    ELSE LET first == CHOOSE a \in lines : \A b \in lines \ {a} : LineLess(a, b)
         IN  <<first>> \o SortedLines(lines \ {first})

RECURSIVE Join(_, _)
\* sep.join(strs)
Join(strs, sep) ==
    IF strs = <<>> THEN ""
    ELSE IF Len(strs) = 1 THEN Text(strs[1])
    ELSE Text(strs[1]) \o sep \o Join(Tail(strs), sep)

\* the rendered deviation: message rewritten, lines removed
RenderDev(d) ==
    LET effect == Get(d.dev, "consequence", "ALERT")
        text == Get(d.dev, "message", "")
    IN  IF d.lines # {}
        THEN [d.dev EXCEPT !.message = "Line " \o Join(SortedLines(d.lines), ", ")
                                       \o ": [" \o effect \o "] " \o text]
        ELSE [d.dev EXCEPT !.message = "[" \o effect \o "] " \o text]

UniqueDeviations(group_deviations) ==
    LET dev_map == DedupDevs(<<>>, group_deviations)
    IN  [i \in 1..Len(dev_map) |-> RenderDev(dev_map[i].val)]

\* the fetched record is the very record that was rendered
FetchedRecordRendered(dev, rendered) == rendered

\* lines 246 and 255: d is a copy of dev, so what is assigned to d (its
\* lines, its rendered message) leaves the fetched record dev as it was
FetchedRecord(dev, rendered) == dev

\* the slots after one group collected and rendered the deviations of the
\* stops it shows
SiteDataAfterGroup(site_data, sites) ==
    LET After(devs, lines) ==
            [k \in 1..Len(devs) |->
                IF devs[k].type # "object" \/ NoMessage(devs[k]) THEN devs[k]
                ELSE FetchedRecord(devs[k],
                                   RenderDev([dev |-> devs[k], lines |-> lines]))]
        Own(dep, key) == GroupDepartures(<<dep>>, Lookup(sites, key).filters) # <<>>
        DepAfter(dep, key) ==
            IF Own(dep, key) /\ "deviations" \in DOMAIN dep
            THEN [dep EXCEPT !.deviations = After(dep.deviations, DepLines(dep))]
            ELSE dep
        Slot(info, key) ==
            LET deps == Get(info, "departures", <<>>)
            IN  IF ~HasKey(sites, key) \/ \A j \in 1..Len(deps) : ~Own(deps[j], key)
                THEN info
                ELSE [info EXCEPT
                        !.stop_deviations = After(info.stop_deviations, {}),
                        !.departures = [j \in 1..Len(deps) |-> DepAfter(deps[j], key)]]
    IN  [i \in 1..Len(site_data) |->
            [site_data[i] EXCEPT !.val = Slot(site_data[i].val, site_data[i].key)]]

\* the groups are visited in the order the routes introduced them
GroupSequenceDiscovered(group_order, grouped_config) == Keys(grouped_config)

\* line 216: the names the third pass visits, in order
GroupSequence(group_order, grouped_config) == group_order

RECURSIVE BuildGroups(_, _, _, _)
\* the loop over group_order: the results, or the exception raised
BuildGroups(group_order, grouped_config, site_data, max_departures) ==
    IF group_order = <<>>
    THEN [raised |-> FALSE, results |-> <<>>, site_data |-> site_data]
    ELSE LET group_name == Head(group_order)
         IN  IF ~HasKey(grouped_config, group_name)
             THEN BuildGroups(Tail(group_order), grouped_config, site_data,
                              max_departures)
             ELSE LET sites == Lookup(grouped_config, group_name)
                      g == SitesOfGroup(sites, site_data, max_departures)
                      rest == BuildGroups(Tail(group_order), grouped_config,
                                          SiteDataAfterGroup(site_data, sites),
                                          max_departures)
                  IN  IF g.raised \/ rest.raised THEN [raised |-> TRUE]
                      ELSE IF g.stations = <<>> THEN rest
                      ELSE [raised |-> FALSE,
                            results |->
                              <<[group |-> group_name,
                                 stations |-> g.stations,
                                 deviations |-> UniqueDeviations(g.devs)]>>
                              \o rest.results,
                            site_data |-> rest.site_data]

(***************************************************************************)
(* Program state after import: nothing loaded, nothing cached.             *)
(***************************************************************************)
EmptyDict == [k \in {} |-> None]

NumCallers == 2

Callers == 1..NumCallers

AllStops == {1555, 9001, 9002}

InitConfigCache == [data |-> EmptyDict, grouped |-> <<>>, mtime |-> 0]

InitCache == [data |-> None, timestamp |-> None]

NoProbe == [fn |-> "none"]

\* the locals of get_data before the call
NoLocals ==
    [grouped_config |-> <<>>, cache_ttl |-> 0, group_order |-> <<>>,
     max_departures |-> 0, site_data |-> <<>>, idx |-> 0, results |-> <<>>,
     responses |-> <<>>, received |-> <<>>, via |-> "none", judged |-> None,
     ret |-> None]

NoFetches == [s \in AllStops |-> 0]

\* the program state while a single function is exercised on its own
ProgramAtRest ==
    /\ config_file = [mtime |-> 0, ok |-> FALSE]
    /\ config_cache = InitConfigCache
    /\ cache = InitCache
    /\ now = 0
    /\ pc = [c \in Callers |-> "idle"]
    /\ loc = [c \in Callers |-> NoLocals]
    /\ fetched = [c \in Callers |-> NoFetches]
    /\ stamped = None

programVars == <<config_file, config_cache, cache, now, pc, loc, fetched, stamped>>

(***************************************************************************)
(* get_config, get_cached_data, cache_data and get_data, one caller c of   *)
(* get_data at a time; each action is one step between two accesses to the *)
(* state the callers share.                                                *)
(***************************************************************************)
DefaultCacheTtl == 8

DefaultMaxDepartures == 10

DefaultGroupOrder == <<"TO WORK", "FROM WORK">>

\* a route entry the loop cannot group: a key it subscripts is missing
RouteRaises(route) == ~({"group", "id", "line", "dest"} \subseteq DOMAIN route)

RoutesRaise(routes) == \E i \in 1..Len(routes) : RouteRaises(routes[i])

\* the routes the loop has grouped when it reaches the first it cannot group
GroupedBeforeRaise(routes) ==
    LET bad == CHOOSE i \in 1..Len(routes) :
                   /\ RouteRaises(routes[i])
                   /\ \A j \in 1..(i - 1) : ~RouteRaises(routes[j])
    IN  SubSeq(routes, 1, bad - 1)

\* the try block raises: no file to stat, or a newer file that cannot be
\* opened, parsed or grouped
LoadRaises(cc, file) ==
    \/ ~file.ok /\ Get(file, "fault", "missing") = "missing"
    \/ /\ file.mtime > cc.mtime
       /\ \/ ~file.ok
          \/ file.ok /\ RoutesRaise(Get(file.data, "monitored_routes", <<>>))

\* get_config with the grouping built in the cache itself: the routes
\* grouped before the one that raises stay behind
get_config_in_place(cc, file) ==
    IF ~file.ok \/ file.mtime <= cc.mtime THEN cc
    ELSE LET routes == Get(file.data, "monitored_routes", <<>>)
         IN  IF RoutesRaise(routes)
             THEN [cc EXCEPT !.grouped = BuildGrouped(<<>>, GroupedBeforeRaise(routes))]
             ELSE [data |-> file.data,
                   grouped |-> BuildGrouped(<<>>, routes),
                   mtime |-> file.mtime]

\* get_config: the cache after the call (the call returns its data and
\* grouped).  The cache is assigned after the file has been read and every
\* route grouped; the handler of any exception returns the cache as it is.
get_config(cc, file) ==
    IF LoadRaises(cc, file) THEN cc
    ELSE IF file.mtime > cc.mtime
         THEN [data |-> file.data,
               grouped |-> BuildGrouped(<<>>, Get(file.data, "monitored_routes", <<>>)),
               mtime |-> file.mtime]
         ELSE cc

\* lines 180-183: the configuration and the settings of this call
StartRequest(c) ==
    /\ pc[c] = "idle"
    /\ LET cc == get_config(config_cache, config_file)
       IN  /\ config_cache' = cc
           /\ loc' = [loc EXCEPT ![c] =
                  [NoLocals EXCEPT
                     !.grouped_config = cc.grouped,
                     !.cache_ttl = Get(cc.data, "cache_ttl_seconds", DefaultCacheTtl),
                     !.group_order = Get(cc.data, "group_order", DefaultGroupOrder),
                     !.max_departures = Get(cc.data, "max_departures_per_station",
                                            DefaultMaxDepartures)]]
    /\ pc' = [pc EXCEPT ![c] = "gcd_data"]
    /\ fetched' = [fetched EXCEPT ![c] = NoFetches]
    /\ UNCHANGED <<config_file, cache, now, stamped, probe>>

\* an empty payload is taken for no payload
SlotIsEmptyOrFalsy(data) == IsNone(data) \/ data.val = <<>>

\* _cache['data'] is None
SlotIsEmpty(data) == IsNone(data)

\* get_cached_data, line 163: _cache['data'] is None
CacheDataIsNone(c) ==
    /\ pc[c] = "gcd_data"
    /\ pc' = [pc EXCEPT ![c] = IF SlotIsEmpty(cache.data) THEN "collect" ELSE "gcd_ts"]
    /\ UNCHANGED <<config_file, config_cache, cache, now, loc, fetched, stamped, probe>>

\* get_cached_data, line 163: _cache['timestamp'] is None
CacheTimestampIsNone(c) ==
    /\ pc[c] = "gcd_ts"
    /\ pc' = [pc EXCEPT ![c] = IF IsNone(cache.timestamp) THEN "collect" ELSE "gcd_age"]
    /\ UNCHANGED <<config_file, config_cache, cache, now, loc, fetched, stamped, probe>>

\* an entry whose age equals the ttl still counts as fresh
FreshInclusive(age, ttl) == age <= ttl

\* age < ttl
Fresh(age, ttl) == age < ttl

\* get_cached_data, lines 166-167: the age of the timestamp against the ttl
CacheAge(c) ==
    /\ pc[c] = "gcd_age"
    /\ LET age == now - cache.timestamp.val
       IN  pc' = [pc EXCEPT ![c] = IF Fresh(age, loc[c].cache_ttl) THEN "gcd_ret"
                                   ELSE "collect"]
    /\ loc' = [loc EXCEPT ![c].judged = stamped]
    /\ UNCHANGED <<config_file, config_cache, cache, now, fetched, stamped, probe>>

\* a hit that also stamps the slot with the time of the read
CacheHitRefreshing(c) ==
    /\ pc[c] = "gcd_ret"
    /\ loc' = [loc EXCEPT ![c].ret = cache.data, ![c].via = "hit"]
    /\ cache' = [cache EXCEPT !.timestamp = Some(now)]
    /\ pc' = [pc EXCEPT ![c] = "done"]
    /\ UNCHANGED <<config_file, config_cache, now, fetched, stamped, probe>>

\* get_cached_data, line 168, and get_data, lines 187-188: the hit returns
\* the payload read now
CacheHit(c) ==
    /\ pc[c] = "gcd_ret"
    /\ loc' = [loc EXCEPT ![c].ret = cache.data, ![c].via = "hit"]
    /\ pc' = [pc EXCEPT ![c] = "done"]
    /\ UNCHANGED <<config_file, config_cache, cache, now, fetched, stamped, probe>>

\* every site of every group is taken, also one already collected
CollectSitesAll(grouped_config) ==
    LET RECURSIVE Groups(_)
        Groups(gs) == IF gs = <<>> THEN <<>>
                      ELSE [i \in 1..Len(Head(gs).val) |->
                              [key |-> Head(gs).val[i].key, val |-> EmptyRec]]
                           \o Groups(Tail(gs))
    IN  Groups(grouped_config)

\* lines 194-197: the sites of all groups, each once, in order of discovery
CollectSites(grouped_config) ==
    LET RECURSIVE Sites(_, _)
        Sites(site_data, sites) ==
            IF sites = <<>> THEN site_data
            ELSE Sites(IF HasKey(site_data, Head(sites).key) THEN site_data
                       ELSE Append(site_data, [key |-> Head(sites).key,
                                               val |-> EmptyRec]),
                       Tail(sites))
        RECURSIVE Groups(_, _)
        Groups(site_data, gs) ==
            IF gs = <<>> THEN site_data
            ELSE Groups(Sites(site_data, Head(gs).val), Tail(gs))
    IN  Groups(<<>>, grouped_config)

\* first pass of the miss
CollectStops(c) ==
    /\ pc[c] = "collect"
    /\ LET site_data == CollectSites(loc[c].grouped_config)
       IN  /\ loc' = [loc EXCEPT ![c].site_data = site_data, ![c].idx = 1,
                                 ![c].via = "miss"]
           /\ pc' = [pc EXCEPT ![c] = IF site_data = <<>> THEN "build" ELSE "fetch"]
    /\ UNCHANGED <<config_file, config_cache, cache, now, fetched, stamped, probe>>

RECURSIVE AllFilters(_, _)
\* lines 202-205: the filters of the site in every group that has it
AllFilters(grouped_config, site_id) ==
    IF grouped_config = <<>> THEN <<>>
    ELSE (IF HasKey(Head(grouped_config).val, site_id)
          THEN Lookup(Head(grouped_config).val, site_id).filters ELSE <<>>)
         \o AllFilters(Tail(grouped_config), site_id)

\* the loop over the sites ends at the first failed fetch
NextSiteStopOnFailure(idx, n, result) ==
    IF result = FetchFailed THEN n + 1 ELSE idx + 1

\* the position of the loop over site_data after one fetch
NextSite(idx, n, result) == idx + 1

\* the name of the fetched stop is also given to the stops fetched before
StoreFetchedSharedName(site_data, idx, result) ==
    [j \in 1..Len(site_data) |->
        IF j = idx THEN [site_data[j] EXCEPT !.val = result]
        ELSE IF "site_name" \in DOMAIN site_data[j].val
             THEN [site_data[j] EXCEPT !.val.site_name = result.site_name]
             ELSE site_data[j]]

\* lines 210-212: the three results go to the slot of the fetched stop
StoreFetched(site_data, idx, result) == [site_data EXCEPT ![idx].val = result]

\* second pass, one iteration: the request of one site, answered by
\* `response`, and what get_departures makes of it
FetchStop(c, response) ==
    /\ pc[c] = "fetch"
    /\ LET idx == loc[c].idx
           site_data == loc[c].site_data
           site_id == site_data[idx].key
           result == get_departures(AllFilters(loc[c].grouped_config, site_id),
                                    response)
           next == NextSite(idx, Len(site_data), result)
       IN  /\ loc' = [loc EXCEPT ![c].site_data = StoreFetched(@, idx, result),
                                 ![c].idx = next,
                                 ![c].responses = Append(@, response.kind),
                                 ![c].received = Append(@, response)]
           /\ fetched' = [fetched EXCEPT ![c][site_id] = @ + 1]
           /\ pc' = [pc EXCEPT ![c] = IF next > Len(site_data) THEN "build"
                                      ELSE "fetch"]
    /\ config_cache' = get_config(config_cache, config_file)
    /\ UNCHANGED <<config_file, cache, now, stamped, probe>>

\* third pass: the results, or the exception that leaves get_data
BuildResults(c) ==
    /\ pc[c] = "build"
    /\ LET r == BuildGroups(GroupSequence(loc[c].group_order, loc[c].grouped_config),
                            loc[c].grouped_config, loc[c].site_data,
                            loc[c].max_departures)
       IN  IF r.raised
           THEN /\ pc' = [pc EXCEPT ![c] = "raised"]
                /\ loc' = loc
           ELSE /\ pc' = [pc EXCEPT ![c] = "put_data"]
                /\ loc' = [loc EXCEPT ![c].results = r.results,
                                      ![c].site_data = r.site_data]
    /\ UNCHANGED <<config_file, config_cache, cache, now, fetched, stamped, probe>>

\* cache_data, line 174
PutData(c) ==
    /\ pc[c] = "put_data"
    /\ cache' = [cache EXCEPT !.data = Some(loc[c].results)]
    /\ pc' = [pc EXCEPT ![c] = "put_ts"]
    /\ UNCHANGED <<config_file, config_cache, now, loc, fetched, stamped, probe>>

\* cache_data, line 175, and the response of lines 296-298
PutTimestamp(c) ==
    /\ pc[c] = "put_ts"
    /\ cache' = [cache EXCEPT !.timestamp = Some(now)]
    /\ stamped' = Some(loc[c].results)
    /\ loc' = [loc EXCEPT ![c].ret = Some(loc[c].results)]
    /\ pc' = [pc EXCEPT ![c] = "done"]
    /\ UNCHANGED <<config_file, config_cache, now, fetched, probe>>

\* the request is over: answered, or failed with the exception
Finish(c) ==
    /\ pc[c] \in {"done", "raised"}
    /\ pc' = [pc EXCEPT ![c] = "idle"]
    /\ loc' = [loc EXCEPT ![c] = NoLocals]
    /\ UNCHANGED <<config_file, config_cache, cache, now, fetched, stamped, probe>>

MaxClock == 3

\* a second passes
Tick ==
    /\ now < MaxClock
    /\ now' = now + 1
    /\ UNCHANGED <<config_file, config_cache, cache, pc, loc, fetched, stamped, probe>>

(***************************************************************************)
(* Timestamps as the API writes them.                                      *)
(***************************************************************************)
\* "HH:MM:SS" of a time of day given in seconds
ClockText(secs) ==
    TwoDigitStr(secs \div 3600) \o <<":">> \o TwoDigitStr((secs \div 60) % 60)
        \o <<":">> \o TwoDigitStr(secs % 60)

Zones == {"naive", "Z", "+01:00"}

\* the ISO string of an instant as a sender in the given zone writes it
IsoAt(instant, zone) ==
    CASE zone = "naive" -> ClockText(instant)
      [] zone = "Z" -> ClockText(instant) \o <<"Z">>
      [] OTHER -> ClockText(instant + 3600) \o <<"+", "0", "1", ":", "0", "0">>

(***************************************************************************)
(* The inputs: config.json files and answers of the departures API.        *)
(***************************************************************************)
Sol == <<"S", "o", "l">>

Route(group, id, line, dest) == [group |-> group, id |-> id, line |-> line, dest |-> dest]

\* two groups that share stop 1555; the second group has a stop of its own
SharedStopConfig ==
    [monitored_routes |->
        <<Route("TO WORK", 1555, StrVal(<<"3", "0">>), Sol),
          Route("TO WORK", 1555, IntVal(4), <<"s", "o", "l">>),
          Route("FROM WORK", 1555, IntVal(41), <<"L", "o">>),
          Route("FROM WORK", 9001, StrVal(<<"3", "0">>), <<"s", "o">>)
              @@ [label |-> Some("Gate")]>>,
     cache_ttl_seconds |-> 2,
     max_departures_per_station |-> 2]

\* one group, one stop, one filter, every setting left to its default
SingleRouteConfig ==
    [monitored_routes |-> <<Route("TO WORK", 1555, StrVal(<<"3", "0">>), Sol)>>]

\* the same route with nothing to show per station
ZeroMaxConfig == SingleRouteConfig @@ [max_departures_per_station |-> 0]

\* two groups on one stop, displayed in the reverse of the order in which
\* the routes introduce them, the first of them once more at the end
ListedOrderConfig ==
    [monitored_routes |->
        <<Route("TO WORK", 1555, StrVal(<<"3", "0">>), <<"o">>),
          Route("FROM WORK", 1555, StrVal(<<"4", "1">>), <<"l", "o">>)>>,
     group_order |-> <<"FROM WORK", "TO WORK", "FROM WORK">>]

ConfigFiles ==
    {[mtime |-> 1, ok |-> TRUE, data |-> d] :
        d \in {SharedStopConfig, SingleRouteConfig, ZeroMaxConfig, ListedOrderConfig}}

Object(fields) == [type |-> "object"] @@ fields

TrackWork == Object([message |-> "Track work"])

TrackWorkInfo == Object([message |-> "Track work", consequence |-> "INFO"])

LiftOut == Object([message |-> "Lift out of order", consequence |-> "INFO"])

EmptyMessage == Object([message |-> ""])

NoMessageDev == Object([consequence |-> "INFO"])

\* a deviation entry that is a JSON string, not an object
StringDev == [type |-> "string"]

Departure(line, dest, scheduled) ==
    [line |-> line, destination |-> dest, scheduled |-> scheduled,
     stop_area |-> Object([name |-> "Solna C"])]

Line30 == Object([designation |-> StrVal(<<"3", "0">>)])

Line4 == Object([designation |-> IntVal(4)])

T0900 == IsoAt(32400, "Z")

\* line 30 to Sol, 09:00 expected 09:01:30, with an alert
Dep30 ==
    Departure(Line30, Sol, T0900)
        @@ [expected |-> IsoAt(32490, "Z"), deviations |-> <<TrackWork>>]

\* line 4 to SOL, 08:59, no expected time
Dep4 ==
    Departure(Line4, <<"S", "O", "L">>, IsoAt(32340, "Z"))
        @@ [deviations |-> <<TrackWorkInfo>>]

\* line 41 to Los by the flat field, 09:02 expected 09:00
Dep41 ==
    Departure([type |-> "string"], <<"L", "o", "s">>, IsoAt(32520, "Z"))
        @@ [line_designation |-> StrVal(<<"4", "1">>), expected |-> T0900,
            deviations |-> <<TrackWork>>]

\* line 30 with a scheduled time that does not parse
DepBadTime == Departure(Line30, Sol, <<"s", "o", "o", "n">>)

\* line 30 with a naive scheduled and an aware expected time
DepMixedZones ==
    Departure(Line30, Sol, IsoAt(32400, "naive")) @@ [expected |-> IsoAt(32460, "Z")]

\* line 30 and line 4, each with a deviation whose message is empty
Dep30EmptyMessage == Departure(Line30, Sol, T0900) @@ [deviations |-> <<EmptyMessage>>]

Dep4EmptyMessage ==
    Departure(Line4, Sol, IsoAt(32460, "Z"))
        @@ [deviations |-> <<EmptyMessage, NoMessageDev>>]

\* line 30 at 08:30Z, written by a sender one hour east: "09:30:00+01:00"
Dep30Offset == Departure(Line30, Sol, IsoAt(30600, "+01:00"))

\* line 4 at 09:40, the last of its stop, with an alert of its own
Dep4Late ==
    Departure(Line4, Sol, IsoAt(34800, "Z")) @@ [deviations |-> <<LiftOut>>]

\* line 30 at 09:00 without a destination
DepNoDestination ==
    [line |-> Line30, scheduled |-> T0900, stop_area |-> Object([name |-> "Solna C"])]

Json(body) == [kind |-> "json", body |-> body]

EmptyBody == [k \in {} |-> None]

\* what a request can come back with: a failed request (network error,
\* timeout, bad status), a body that is not JSON, or a JSON object
Responses ==
    {[kind |-> "error"], [kind |-> "notjson"], Json(EmptyBody),
     Json([departures |-> <<Dep30>>]),
     Json([departures |-> <<Dep30, Dep4>>, stop_deviations |-> <<TrackWork>>]),
     Json([departures |-> <<Dep41, Dep30, Dep4>>, stop_deviations |-> <<LiftOut>>]),
     Json([departures |-> <<Dep30, DepBadTime>>]),
     Json([departures |-> <<Dep30, DepMixedZones>>]),
     Json([departures |-> <<Dep30>>, stop_deviations |-> <<StringDev>>]),
     Json([departures |-> <<Dep30EmptyMessage, Dep4EmptyMessage>>]),
     Json([departures |-> <<>>, stop_deviations |-> <<TrackWork>>]),
     Json([departures |-> <<Dep4Late, Dep30Offset, Dep30>>]),
     Json([departures |-> <<DepNoDestination>>])}

(***************************************************************************)
(* One caller: requests follow one another while time passes.              *)
(***************************************************************************)
Init ==
    /\ config_file \in ConfigFiles
    /\ config_cache = InitConfigCache
    /\ cache = InitCache
    /\ now = 0
    /\ pc = [c \in Callers |-> "idle"]
    /\ loc = [c \in Callers |-> NoLocals]
    /\ fetched = [c \in Callers |-> NoFetches]
    /\ stamped = None
    /\ probe = NoProbe

Step(c) ==
    \/ StartRequest(c)
    \/ CacheDataIsNone(c)
    \/ CacheTimestampIsNone(c)
    \/ CacheAge(c)
    \/ CacheHit(c)
    \/ CollectStops(c)
    \/ BuildResults(c)
    \/ PutData(c)
    \/ PutTimestamp(c)
    \/ Finish(c)

Next ==
    \/ Step(1)
    \/ \E response \in Responses : FetchStop(1, response)
    \/ Tick

Spec == Init /\ [][Next]_vars

(***************************************************************************)
(* Several callers at once, as the threads of the server run get_data.     *)
(***************************************************************************)
ConcurrentResponses == {[kind |-> "error"], Json([departures |-> <<Dep30>>])}

InitConcurrent ==
    /\ Init
    /\ config_file.data = SharedStopConfig

NextConcurrent ==
    \/ \E c \in Callers : Step(c)
    \/ \E c \in Callers : \E response \in ConcurrentResponses : FetchStop(c, response)
    \/ Tick

SpecConcurrent == InitConcurrent /\ [][NextConcurrent]_vars

(***************************************************************************)
(* The second pass with its iterations in any order.  get_data runs them   *)
(* in the order of site_data; here the same iteration is run for the stops *)
(* in every order, each stop answering what it was fixed to answer, and    *)
(* the third pass and cache_data follow.                                   *)
(***************************************************************************)
\* three stops, two of them in both groups
ThreeStopConfig ==
    [monitored_routes |->
        <<Route("TO WORK", 1555, StrVal(<<"3", "0">>), Sol),
          Route("FROM WORK", 9001, StrVal(<<"3", "0">>), <<"s", "o">>),
          Route("FROM WORK", 1555, StrVal(<<"4", "1">>), <<"L", "o">>),
          Route("TO WORK", 9002, IntVal(4), <<"s", "o", "l">>),
          Route("FROM WORK", 9002, StrVal(<<"3", "0">>), Sol)>>,
     max_departures_per_station |-> 2]

\* what a stop can answer here: a failure, nothing, departures of one, two
\* or three lines with and without alerts, a departure that empties the
\* stop, and a deviation that makes the third pass raise
AnyOrderResponses ==
    {[kind |-> "error"], Json(EmptyBody),
     Json([departures |-> <<Dep30>>]),
     Json([departures |-> <<Dep30, Dep4>>, stop_deviations |-> <<TrackWork>>]),
     Json([departures |-> <<Dep41, Dep30, Dep4>>, stop_deviations |-> <<LiftOut>>]),
     Json([departures |-> <<Dep30, DepMixedZones>>]),
     Json([departures |-> <<Dep30>>, stop_deviations |-> <<StringDev>>])}

InitAnyOrder ==
    /\ config_file = [mtime |-> 1, ok |-> TRUE, data |-> ThreeStopConfig]
    /\ config_cache = get_config(InitConfigCache, config_file)
    /\ cache = InitCache
    /\ now = 0
    /\ pc = [c \in Callers |-> IF c = 1 THEN "fetch" ELSE "idle"]
    /\ loc = [c \in Callers |->
                IF c = 1
                THEN [NoLocals EXCEPT
                        !.grouped_config = config_cache.grouped,
                        !.cache_ttl = DefaultCacheTtl,
                        !.group_order = DefaultGroupOrder,
                        !.max_departures = ThreeStopConfig.max_departures_per_station,
                        !.site_data = CollectSites(config_cache.grouped),
                        !.via = "miss"]
                ELSE NoLocals]
    /\ fetched = [c \in Callers |-> NoFetches]
    /\ stamped = None
    /\ \E answers \in [AllStops -> AnyOrderResponses] :
          probe = [fn |-> "second_pass", answers |-> answers, order |-> <<>>]

\* lines 201-212 for the stop in slot idx, not yet fetched
FetchAnyStop(idx) ==
    /\ pc[1] = "fetch"
    /\ probe.fn = "second_pass"
    /\ idx \in 1..Len(loc[1].site_data)
    /\ \A k \in 1..Len(probe.order) : probe.order[k] # idx
    /\ LET site_id == loc[1].site_data[idx].key
           response == probe.answers[site_id]
           result == get_departures(AllFilters(loc[1].grouped_config, site_id),
                                    response)
       IN  /\ loc' = [loc EXCEPT ![1].site_data = StoreFetched(@, idx, result)]
           /\ fetched' = [fetched EXCEPT ![1][site_id] = @ + 1]
    /\ probe' = [probe EXCEPT !.order = Append(@, idx)]
    /\ pc' = [pc EXCEPT ![1] = IF Len(probe.order) + 1 = Len(loc[1].site_data)
                               THEN "build" ELSE "fetch"]
    /\ config_cache' = get_config(config_cache, config_file)
    /\ UNCHANGED <<config_file, cache, now, stamped>>

NextAnyOrder ==
    \/ \E idx \in 1..Cardinality(AllStops) : FetchAnyStop(idx)
    \/ BuildResults(1)
    \/ PutData(1)
    \/ PutTimestamp(1)

SpecAnyOrder == InitAnyOrder /\ [][NextAnyOrder]_vars

\* what the slot of a stop holds once the stop has answered
SlotOf(c, idx) ==
    get_departures(AllFilters(loc[c].grouped_config, loc[c].site_data[idx].key),
                   probe.answers[loc[c].site_data[idx].key])

RECURSIVE InListOrder(_, _)
\* the slots after the stops from idx on were fetched one after the other
InListOrder(site_data, idx) ==
    IF idx > Len(site_data) THEN site_data
    ELSE InListOrder(StoreFetched(site_data, idx, SlotOf(1, idx)), idx + 1)

MaxCacheClock == 10

CachePayloads ==
    {<<>>, <<[group |-> "TO WORK", stations |-> <<>>, deviations |-> <<>>]>>}

CacheTtls == {1, DefaultCacheTtl}

InitCacheOnly ==
    /\ ProgramAtRest
    /\ probe = [fn |-> "cache", stored |-> FALSE, payload |-> <<>>, put_at |-> 0]

\* cache_data(payload) is called
BeginPut(payload) ==
    /\ pc[1] = "idle"
    /\ loc' = [loc EXCEPT ![1].results = payload]
    /\ pc' = [pc EXCEPT ![1] = "put_data"]
    /\ probe' = [probe EXCEPT !.stored = TRUE, !.payload = payload, !.put_at = now]
    /\ UNCHANGED <<config_file, config_cache, cache, now, fetched, stamped>>

\* get_cached_data(ttl) is called
BeginGet(ttl) ==
    /\ pc[1] = "idle"
    /\ loc' = [loc EXCEPT ![1].cache_ttl = ttl]
    /\ pc' = [pc EXCEPT ![1] = "gcd_data"]
    /\ UNCHANGED <<config_file, config_cache, cache, now, fetched, stamped, probe>>

\* get_cached_data returns None (lines 164 and 170)
GetMiss ==
    /\ pc[1] = "collect"
    /\ loc' = [loc EXCEPT ![1].ret = None, ![1].via = "miss"]
    /\ pc' = [pc EXCEPT ![1] = "done"]
    /\ UNCHANGED <<config_file, config_cache, cache, now, fetched, stamped, probe>>

TickBetweenCalls ==
    /\ pc[1] = "idle"
    /\ now < MaxCacheClock
    /\ now' = now + 1
    /\ UNCHANGED <<config_file, config_cache, cache, pc, loc, fetched, stamped, probe>>

NextCacheOnly ==
    \/ \E payload \in CachePayloads : BeginPut(payload)
    \/ \E ttl \in CacheTtls : BeginGet(ttl)
    \/ PutData(1)
    \/ PutTimestamp(1)
    \/ CacheDataIsNone(1)
    \/ CacheTimestampIsNone(1)
    \/ CacheAge(1)
    \/ CacheHit(1)
    \/ GetMiss
    \/ Finish(1)
    \/ TickBetweenCalls

SpecCache == InitCacheOnly /\ [][NextCacheOnly]_vars

\* C3: get(ttl) returns the stored payload exactly when a payload has been
\* stored and now - capturedAt < ttl, and a miss otherwise.
C3_GetIffFresh ==
    (pc[1] = "done" /\ loc[1].via \in {"hit", "miss"}) =>
        IF probe.stored /\ now - probe.put_at < loc[1].cache_ttl
        THEN loc[1].ret = Some(probe.payload)
        ELSE loc[1].ret = None

\* a get at an age equal to the ttl of 8 seconds has answered with a miss
C3_Witness ==
    /\ pc[1] = "done" /\ loc[1].via = "miss" /\ loc[1].ret = None
    /\ probe.stored /\ loc[1].cache_ttl = 8 /\ now - probe.put_at = 8

(***************************************************************************)
(* The cycle of get_data                                                   *)
(***************************************************************************)
\* the stop ids the configuration file names
ConfiguredStops ==
    LET routes == Get(config_file.data, "monitored_routes", <<>>)
    IN  {routes[i].id : i \in 1..Len(routes)}

FetchPassOver(c) ==
    \/ pc[c] \in {"build", "put_data", "put_ts", "raised"}
    \/ pc[c] = "done" /\ loc[c].via = "miss"

\* C1: in a cycle that observes a miss, get_departures is called exactly
\* once for each distinct configured stop id: never twice, never again after
\* a failure, never skipped, and never for a stop that is not configured.
C1_FetchOncePerStop ==
    \A c \in Callers :
        /\ \A s \in AllStops :
              fetched[c][s] <= (IF s \in ConfiguredStops THEN 1 ELSE 0)
        /\ FetchPassOver(c) => \A s \in ConfiguredStops : fetched[c][s] = 1

\* a miss cycle over a stop shared by two groups has ended with one call
\* per stop, one of which failed
C1_Witness ==
    /\ pc[1] = "done" /\ loc[1].via = "miss"
    /\ config_file.data = SharedStopConfig
    /\ \E i \in 1..Len(loc[1].responses) : loc[1].responses[i] = "error"
    /\ fetched[1][1555] = 1 /\ fetched[1][9001] = 1

\* C2: callers that observe the same miss do not each run a pass of
\* upstream fetches: no stop has been fetched by two cycles in flight.
C2_SingleFlight ==
    \A s \in AllStops :
        Cardinality({c \in Callers :
                        /\ pc[c] \in {"fetch", "build", "put_data", "put_ts"}
                        /\ fetched[c][s] > 0}) <= 1

\* C4: get_data never raises to its caller.
C4_NeverRaises == \A c \in Callers : pc[c] # "raised"

\* what the third pass makes of the site data `sd` for caller c
Outcome(c, sd) ==
    BuildGroups(loc[c].group_order, loc[c].grouped_config, sd, loc[c].max_departures)

\* C5: a stop whose request failed contributes no name, no departures and
\* no deviations; every configured stop is still fetched, and the cycle
\* ends as it would had the failed stop answered with an empty object.
C5_FailureIsolated ==
    \A c \in Callers :
        pc[c] \in {"put_data", "raised"} =>
            \A i \in 1..Len(loc[c].responses) :
                loc[c].responses[i] # "json" =>
                    LET sd == loc[c].site_data
                        filters == AllFilters(loc[c].grouped_config, sd[i].key)
                        asEmpty == [sd EXCEPT
                                      ![i].val = get_departures(filters, Json(EmptyBody))]
                        r == Outcome(c, asEmpty)
                    IN  /\ sd[i].val = [site_name |-> None, departures |-> <<>>,
                                        stop_deviations |-> <<>>]
                        /\ \A s \in ConfiguredStops : fetched[c][s] = 1
                        /\ IF pc[c] = "raised" THEN r.raised
                           ELSE ~r.raised /\ r.results = loc[c].results

\* the first stop failed, the second was fetched and is shown
C5_Witness ==
    /\ pc[1] = "put_data"
    /\ loc[1].responses = <<"error", "json">>
    /\ loc[1].results # <<>>

\* C6: whatever a miss cycle produced is stored, an empty or degraded result
\* too; while the entry is younger than the ttl no cycle fetches, and a hit
\* returns the stored payload without any upstream call.
C6_StoresAnyResult ==
    \A c \in Callers :
        /\ pc[c] \in {"collect", "fetch", "build"} =>
              \/ IsNone(cache.data) \/ IsNone(cache.timestamp)
              \/ now - cache.timestamp.val >= loc[c].cache_ttl
        /\ (pc[c] = "done" /\ loc[c].via = "miss") =>
              /\ cache.data = Some(loc[c].results)
              /\ loc[c].ret = cache.data
        /\ (pc[c] = "done" /\ loc[c].via = "hit") =>
              /\ ~IsNone(loc[c].ret) /\ loc[c].ret = cache.data
              /\ \A s \in AllStops : fetched[c][s] = 0

\* with stops configured, a hit has returned a stored empty result
C6_Witness ==
    /\ pc[1] = "done" /\ loc[1].via = "hit"
    /\ ConfiguredStops # {}
    /\ loc[1].ret = Some(<<>>)

\* C7: a reader never gets the payload of one cache_data call together with
\* the timestamp of another: the payload a hit returns is the one stored by
\* the call that wrote the timestamp the hit was judged by.
C7_AtomicPut ==
    \A c \in Callers :
        (pc[c] = "done" /\ loc[c].via = "hit") => loc[c].ret = loc[c].judged

\* the deviations a group collects, each with its message, its lines and
\* its consequence: those of every stop shown in the group and those of the
\* stop's departures that match the group
Occurrences(c, group_name) ==
    LET sites == Lookup(loc[c].grouped_config, group_name)
        Of(devs, lines) ==
            {[message |-> devs[k].message, lines |-> lines,
              effect |-> Get(devs[k], "consequence", "ALERT")] :
                k \in {k \in 1..Len(devs) : "message" \in DOMAIN devs[k]}}
        SiteOcc(i) ==
            LET info == Lookup(loc[c].site_data, sites[i].key)
                deps == info.departures
                shown == {j \in 1..Len(deps) :
                            matches_filter(deps[j].line_num,
                                           Get(deps[j], "destination", <<>>),
                                           sites[i].val.filters)}
            IN  IF shown = {} THEN {}
                ELSE Of(info.stop_deviations, {})
                     \cup UNION {Of(Get(deps[j], "deviations", <<>>),
                                    DepLines(deps[j])) : j \in shown}
    IN  UNION {SiteOcc(i) : i \in 1..Len(sites)}

\* the lines of U by length, then alphabetically
InOrder(U) ==
    CHOOSE q \in [1..Cardinality(U) -> U] :
        \A i, j \in 1..Cardinality(U) : i < j => LineLess(q[i], q[j])

RECURSIVE CommaList(_)
CommaList(q) ==
    IF q = <<>> THEN ""
    ELSE IF Len(q) = 1 THEN Text(q[1])
    ELSE Text(q[1]) \o ", " \o CommaList(Tail(q))

\* the text the claim gives a merged deviation
ExpectedText(m, U, effect) ==
    IF U # {} THEN "Line " \o CommaList(InOrder(U)) \o ": [" \o effect \o "] " \o m
    ELSE "[" \o effect \o "] " \o m

\* every message of the group, other than those in `skipped`, has exactly
\* one entry, which names the union of the lines of its occurrences
MergedByMessage(c, skipped) ==
    pc[c] = "put_data" =>
        \A i \in 1..Len(loc[c].results) :
            LET e == loc[c].results[i]
                occ == Occurrences(c, e.group)
                msgs == {o.message : o \in occ} \ skipped
            IN  /\ Len(e.deviations) = Cardinality(msgs)
                /\ \A m \in msgs :
                     LET U == UNION {o.lines : o \in {o \in occ : o.message = m}}
                     IN  Cardinality(
                            {k \in 1..Len(e.deviations) :
                                \E o \in occ :
                                    /\ o.message = m
                                    /\ e.deviations[k].message =
                                          ExpectedText(m, U, o.effect)}) = 1

\* C10 as amended: within one emitted group, all stop-level and per-departure
\* deviations that share a non-empty message are merged into exactly one
\* entry, rendered with the union of their lines sorted by (length, text),
\* or without lines when there are none, the consequence defaulting to
\* ALERT; deviations whose message is empty or missing have no entry.
C10_MergedByMessage == \A c \in Callers : MergedByMessage(c, {""})

\* C10: every message shared by deviations of the group, whatever its text,
\* has exactly one entry.
C10_EveryMessageHasEntry == \A c \in Callers : MergedByMessage(c, {})

\* the alerts of lines 30 and 41 of one group have been merged
C10_Witness ==
    /\ pc[1] = "put_data"
    /\ \E i \in 1..Len(loc[1].results) :
          \E k \in 1..Len(loc[1].results[i].deviations) :
              loc[1].results[i].deviations[k].message
                  = "Line 30, 41: [ALERT] Track work"

\* the instant of a departure's effective time: expected, else scheduled
EffectiveInstant(dep) ==
    Instant(parse_datetime(OrElse(OptStr(dep, "expected"),
                                  OptStr(dep, "scheduled"))).val)

\* the fetched departures of a stop that match the filters a group has for
\* it, in the order the fetch returned them
Candidates(c, site) ==
    LET Matches(dep) == matches_filter(dep.line_num,
                                       Get(dep, "destination", <<>>),
                                       site.val.filters)
    IN  SelectSeq(Lookup(loc[c].site_data, site.key).departures, Matches)

\* the stops of a group that have such a departure, in the group's order:
\* the k-th station of the group is the k-th of them
ShownSites(c, group_name) ==
    LET HasCandidate(site) == Candidates(c, site) # <<>>
    IN  SelectSeq(Lookup(loc[c].grouped_config, group_name), HasCandidate)

\* C11: the departures of every emitted station are in ascending order of
\* effective instant, are at most max_departures_per_station, and are the
\* earliest of the stop's matching enriched departures: none left out is
\* earlier than one emitted.
C11_EarliestFirst ==
    \A c \in Callers :
        pc[c] = "put_data" =>
            \A g \in 1..Len(loc[c].results) :
                LET e == loc[c].results[g]
                    shown == ShownSites(c, e.group)
                IN  \A k \in 1..Len(e.stations) :
                        k <= Len(shown) =>
                            LET deps == e.stations[k].departures
                                cand == Candidates(c, shown[k])
                                max == loc[c].max_departures
                            IN  /\ Len(deps) <= max
                                /\ Len(deps) = IF Len(cand) < max THEN Len(cand) ELSE max
                                /\ \A i, j \in 1..Len(deps) :
                                      i < j => EffectiveInstant(deps[i])
                                                  <= EffectiveInstant(deps[j])
                                /\ \A i \in 1..Len(deps) :
                                      \E j \in 1..Len(cand) : cand[j] = deps[i]
                                /\ \A j \in 1..Len(cand) :
                                      (\A i \in 1..Len(deps) : deps[i] # cand[j]) =>
                                          \A i \in 1..Len(deps) :
                                              EffectiveInstant(deps[i])
                                                  <= EffectiveInstant(cand[j])

\* C12: every emitted group has a station, and every emitted station has a
\* departure, each one enriched and matching the filters the group has for
\* the stop; a stop without such a departure gives no station, and a cycle
\* whose fetches all failed returns the empty list.
C12_NothingEmpty ==
    \A c \in Callers :
        pc[c] = "put_data" =>
            /\ \A g \in 1..Len(loc[c].results) :
                  LET e == loc[c].results[g]
                      shown == ShownSites(c, e.group)
                  IN  /\ e.stations # <<>>
                      /\ Len(e.stations) = Len(shown)
                      /\ \A k \in 1..Len(e.stations) :
                            LET deps == e.stations[k].departures
                            IN  /\ deps # <<>>
                                /\ \A i \in 1..Len(deps) :
                                      /\ {"display_time", "status_text"}
                                            \subseteq DOMAIN deps[i]
                                      /\ matches_filter(deps[i].line_num,
                                            Get(deps[i], "destination", <<>>),
                                            shown[k].val.filters)
            /\ (\A i \in 1..Len(loc[c].responses) : loc[c].responses[i] # "json")
                  => loc[c].results = <<>>

\* the names of the emitted groups, in the order of the result
EmittedGroups(c) == [g \in 1..Len(loc[c].results) |-> loc[c].results[g].group]

\* C13 as amended: the emitted groups are, in order, the entries of
\* group_order that name a configured group with a station to show, whatever
\* the order in which the routes introduced the groups; a group is emitted
\* once for each time group_order lists it.
C13_FollowsGroupOrder ==
    \A c \in Callers :
        pc[c] = "put_data" =>
            LET Emitted(name) == /\ HasKey(loc[c].grouped_config, name)
                                 /\ ShownSites(c, name) # <<>>
            IN  EmittedGroups(c) = SelectSeq(loc[c].group_order, Emitted)

\* C13: of two emitted groups the one listed earlier in group_order comes
\* first, and no group is emitted twice.
C13_OrderedAndOnce ==
    \A c \in Callers :
        pc[c] = "put_data" =>
            LET order == loc[c].group_order
                First(name) == CHOOSE i \in 1..Len(order) :
                                  /\ order[i] = name
                                  /\ \A j \in 1..(i - 1) : order[j] # name
            IN  \A g, h \in 1..Len(loc[c].results) :
                    g < h => /\ EmittedGroups(c)[g] # EmittedGroups(c)[h]
                             /\ First(EmittedGroups(c)[g]) < First(EmittedGroups(c)[h])

\* the group the routes introduce second has been emitted first
C13_Witness ==
    /\ pc[1] = "put_data"
    /\ Keys(loc[1].grouped_config) = <<"TO WORK", "FROM WORK">>
    /\ Len(loc[1].results) >= 2
    /\ loc[1].results[1].group = "FROM WORK"
    /\ loc[1].results[2].group = "TO WORK"

\* the departures of the body the i-th fetched stop answered with
RawDepartures(c, i) ==
    IF loc[c].received[i].kind = "json"
    THEN Get(loc[c].received[i].body, "departures", <<>>)
    ELSE <<>>

\* the departure matches one of the filters its stop was fetched with
MatchesStop(c, i, dep) ==
    matches_filter(LineNum(dep), Get(dep, "destination", Unknown),
                   AllFilters(loc[c].grouped_config, loc[c].site_data[i].key))

\* both timestamps of the departure parse and can be compared
GoodTimes(dep) ==
    LET s_dt == parse_datetime(OptStr(dep, "scheduled"))
        e_dt == parse_datetime(OrElse(OptStr(dep, "expected"), OptStr(dep, "scheduled")))
    IN  /\ ~IsNone(s_dt) /\ ~IsNone(e_dt)
        /\ s_dt.val.aware = e_dt.val.aware

\* an enriched departure without the fields the enrichment added
Upstream(dep) ==
    [k \in DOMAIN dep \ {"display_time", "status_text", "line_num"} |-> dep[k]]

\* C14: of the matching departures a stop answered with, those whose
\* timestamps parse and compare are all kept, wherever a bad one stands in
\* the list, and those whose timestamps do not are all dropped.
C14_OnlyBadDropped ==
    \A c \in Callers :
        pc[c] \in {"build", "put_data", "raised"} =>
            \A i \in 1..Len(loc[c].received) :
                LET raw == RawDepartures(c, i)
                    kept == loc[c].site_data[i].val.departures
                IN  \A j \in 1..Len(raw) :
                        MatchesStop(c, i, raw[j]) =>
                            (GoodTimes(raw[j])
                                <=> \E k \in 1..Len(kept) : Upstream(kept[k]) = raw[j])

\* the steps of get_cached_data and of the return of a hit
CheckingCache == {"gcd_data", "gcd_ts", "gcd_age", "gcd_ret"}

\* C15: a cycle that finds the entry fresh goes from the cache check
\* straight to its return: it fetches no stop, returns the payload stored
\* by the last cache_data call, and no step of it, from the check to the
\* end of the request, changes the payload or the timestamp of the slot.
C15_HitLeavesCache ==
    [][\A c \in Callers :
          /\ (pc[c] \in CheckingCache /\ pc'[c] # pc[c]) =>
                /\ cache' = cache
                /\ fetched'[c] = NoFetches
          /\ pc[c] = "gcd_ret" => pc'[c] \in {"gcd_ret", "done"}
          /\ (pc[c] = "gcd_ret" /\ pc'[c] = "done") =>
                /\ loc'[c].via = "hit"
                /\ ~IsNone(stamped) /\ loc'[c].ret = stamped
          /\ (pc[c] = "done" /\ loc[c].via = "hit" /\ pc'[c] # "done") =>
                cache' = cache]_vars

\* a hit has returned a stored group while the entry was one second old
C15_Witness ==
    /\ pc[1] = "done" /\ loc[1].via = "hit"
    /\ ~IsNone(loc[1].ret) /\ loc[1].ret.val # <<>>
    /\ now = cache.timestamp.val + 1

\* the departure matches a filter that some group has for the stop
MatchesSomeGroup(c, stop, dep) ==
    \E g \in 1..Len(loc[c].grouped_config) :
        LET sites == loc[c].grouped_config[g].val
        IN  /\ HasKey(sites, stop)
            /\ matches_filter(LineNum(dep), Get(dep, "destination", Unknown),
                              Lookup(sites, stop).filters)

\* C16: a stop is fetched with the filters of every group that has it: the
\* departures kept for the stop are those of the answer that match a filter
\* of some group (all of them, when the fetch did not fail); and under a
\* group only departures matching that group's own filters for the stop
\* are emitted.
C16_UnionThenOwnFilters ==
    \A c \in Callers :
        pc[c] = "put_data" =>
            /\ \A i \in 1..Len(loc[c].site_data) :
                  LET stop == loc[c].site_data[i].key
                      raw == RawDepartures(c, i)
                      kept == loc[c].site_data[i].val.departures
                  IN  /\ \A k \in 1..Len(kept) :
                            /\ MatchesSomeGroup(c, stop, Upstream(kept[k]))
                            /\ \E j \in 1..Len(raw) : raw[j] = Upstream(kept[k])
                      /\ (\A j \in 1..Len(raw) : GoodTimes(raw[j])) =>
                            \A j \in 1..Len(raw) :
                                MatchesSomeGroup(c, stop, raw[j]) =>
                                    \E k \in 1..Len(kept) : Upstream(kept[k]) = raw[j]
            /\ \A g \in 1..Len(loc[c].results) :
                  LET e == loc[c].results[g]
                      shown == ShownSites(c, e.group)
                  IN  /\ Len(e.stations) = Len(shown)
                      /\ \A k \in 1..Len(e.stations) :
                            \A i \in 1..Len(e.stations[k].departures) :
                                LET dep == Upstream(e.stations[k].departures[i])
                                IN  /\ matches_filter(LineNum(dep),
                                          Get(dep, "destination", Unknown),
                                          shown[k].val.filters)
                                    /\ matches_filter(LineNum(dep),
                                          Get(dep, "destination", <<>>),
                                          shown[k].val.filters)

\* stop 1555, shared by the two groups, answered with three departures: the
\* two of TO WORK are emitted there, the one of FROM WORK there
C16_Witness ==
    /\ pc[1] = "put_data"
    /\ Len(loc[1].site_data) = 2
    /\ Len(loc[1].site_data[1].val.departures) = 3
    /\ Len(loc[1].results) = 2
    /\ Len(loc[1].results[1].stations[1].departures) = 2
    /\ Len(loc[1].results[2].stations[1].departures) = 1

\* the lines of the departures a group entry shows
VisibleLines(e) ==
    UNION {UNION {DepLines(e.stations[k].departures[i]) :
                     i \in 1..Len(e.stations[k].departures)} :
              k \in 1..Len(e.stations)}

\* C17: every deviation a group renders names only lines of departures
\* that the group shows: its text is that of one of the group's deviations
\* with some set of visible lines, or with none.
C17_OnlyVisibleLines ==
    \A c \in Callers :
        pc[c] = "put_data" =>
            \A g \in 1..Len(loc[c].results) :
                LET e == loc[c].results[g]
                IN  \A d \in 1..Len(e.deviations) :
                        \E o \in Occurrences(c, e.group) :
                            \E U \in SUBSET VisibleLines(e) :
                                e.deviations[d].message
                                    = ExpectedText(o.message, U, o.effect)

\* the status the delay of delta seconds is given
StatusText(delta) ==
    LET n == IF delta >= 0 THEN delta \div 60 ELSE -((-delta) \div 60)
    IN  IF delta > 60 THEN "+" \o ToString(n) \o " min"
        ELSE IF delta < -60 THEN ToString(n) \o " min"
        ELSE "On Time"

\* the string of the effective time: expected, else scheduled
EffectiveString(dep) == OrElse(OptStr(dep, "expected"), OptStr(dep, "scheduled")).val

\* x is the departure dep as a group emits it
EmittedAs(x, dep) ==
    /\ Upstream(x) = dep
    /\ x.status_text
          = StatusText(EffectiveInstant(dep)
                          - Instant(parse_datetime(OptStr(dep, "scheduled")).val))
    /\ x.display_time = Text(SubSeq(EffectiveString(dep), 1, 5))

\* C18: a departure of a stop's answer that matches a filter a group has
\* for the stop and whose timestamps are good is emitted by that group
\* under that stop, with the status of its delay and the HH:MM of its
\* effective time, unless the station already holds the maximum.
C18_MatchingIsEmitted ==
    \A c \in Callers :
        pc[c] = "put_data" =>
            \A i \in 1..Len(loc[c].site_data) :
                \A g \in 1..Len(loc[c].grouped_config) :
                    LET stop == loc[c].site_data[i].key
                        raw == RawDepartures(c, i)
                        name == loc[c].grouped_config[g].key
                        sites == loc[c].grouped_config[g].val
                        Wanted(dep) ==
                            /\ GoodTimes(dep)
                            /\ matches_filter(LineNum(dep),
                                              Get(dep, "destination", Unknown),
                                              Lookup(sites, stop).filters)
                    IN  HasKey(sites, stop) =>
                            \A j \in 1..Len(raw) :
                                Wanted(raw[j]) =>
                                    \E r \in 1..Len(loc[c].results) :
                                        LET e == loc[c].results[r]
                                            shown == ShownSites(c, name)
                                        IN  /\ e.group = name
                                            /\ \E k \in 1..Len(e.stations) :
                                                  LET deps == e.stations[k].departures
                                                  IN  /\ k <= Len(shown)
                                                      /\ shown[k].key = stop
                                                      /\ \/ Len(deps) >= loc[c].max_departures
                                                         \/ \E x \in 1..Len(deps) :
                                                               EmittedAs(deps[x], raw[j])

\* the deviation records, stop-level and per-departure, in the answers of
\* the stops of a group
AnsweredDevs(c, name) ==
    LET sites == Lookup(loc[c].grouped_config, name)
        Objects(devs) == {devs[k] : k \in {k \in 1..Len(devs) :
                                              devs[k].type = "object"}}
        OfStop(i) ==
            IF ~HasKey(sites, loc[c].site_data[i].key)
               \/ loc[c].received[i].kind # "json"
            THEN {}
            ELSE Objects(Get(loc[c].received[i].body, "stop_deviations", <<>>))
                 \cup UNION {Objects(Get(RawDepartures(c, i)[j], "deviations", <<>>)) :
                                j \in 1..Len(RawDepartures(c, i))}
    IN  UNION {OfStop(i) : i \in 1..Len(loc[c].received)}

\* the lines of the answered departures that match the group's own filters
OwnLines(c, name) ==
    LET sites == Lookup(loc[c].grouped_config, name)
        OfStop(i) ==
            LET key == loc[c].site_data[i].key
                raw == RawDepartures(c, i)
            IN  IF ~HasKey(sites, key) THEN {}
                ELSE {Str(LineNum(raw[j])) :
                        j \in {j \in 1..Len(raw) :
                                 matches_filter(LineNum(raw[j]),
                                                Get(raw[j], "destination", Unknown),
                                                Lookup(sites, key).filters)}}
    IN  UNION {OfStop(i) : i \in 1..Len(loc[c].received)}

\* C20: when all groups are built, every slot still holds what the fetch of
\* its stop returned, deviation records included, and each deviation a
\* group renders is a record the group's stops answered with, its message
\* rendered once with lines of the group's own departures only.
C20_GroupsDoNotInterfere ==
    \A c \in Callers :
        pc[c] = "put_data" =>
            /\ \A i \in 1..Len(loc[c].site_data) :
                  loc[c].site_data[i].val
                      = get_departures(AllFilters(loc[c].grouped_config,
                                                  loc[c].site_data[i].key),
                                       loc[c].received[i])
            /\ \A g \in 1..Len(loc[c].results) :
                  LET e == loc[c].results[g]
                  IN  \A d \in 1..Len(e.deviations) :
                          \E r \in AnsweredDevs(c, e.group) :
                              \E U \in SUBSET OwnLines(c, e.group) :
                                  /\ "message" \in DOMAIN r
                                  /\ e.deviations[d]
                                        = [r EXCEPT !.message =
                                             ExpectedText(r.message, U,
                                                 Get(r, "consequence", "ALERT"))]

\* both groups show the shared stop and have rendered its station-wide
\* alert, each after the other collected it
C20_Witness ==
    /\ pc[1] = "put_data"
    /\ Len(loc[1].results) = 2
    /\ loc[1].site_data[1].val.stop_deviations = <<LiftOut>>
    /\ \A g \in 1..2 :
          \E d \in 1..Len(loc[1].results[g].deviations) :
              loc[1].results[g].deviations[d].message = "[INFO] Lift out of order"

(***************************************************************************)
(* config.json edited while the server runs.  Each edit leaves a newer     *)
(* file: a configuration, no file at all, a file that cannot be opened, a  *)
(* file that is not JSON, or a configuration with a route entry that has   *)
(* no 'dest'.  The cycles of one caller run between and across the edits;  *)
(* probe keeps where the caller was at the last edit.                      *)
(***************************************************************************)
MaxConfigEdits == 3

\* one route and nothing kept in the cache from one cycle to the next
UncachedConfig == SingleRouteConfig @@ [cache_ttl_seconds |-> 0]

UncachedListedConfig == ListedOrderConfig @@ [cache_ttl_seconds |-> 0]

\* the second route entry has no 'dest'
UngroupableConfig ==
    [monitored_routes |->
        <<Route("FROM WORK", 9001, StrVal(<<"3", "0">>), <<"s", "o">>),
          [group |-> "TO WORK", id |-> 1555, line |-> IntVal(4)]>>,
     cache_ttl_seconds |-> 0]

ConfigContents ==
    {[ok |-> TRUE, data |-> d] :
        d \in {UncachedConfig, UncachedListedConfig, UngroupableConfig}}
    \cup {[ok |-> FALSE, fault |-> f] : f \in {"missing", "unreadable", "unparseable"}}

InitConfig ==
    /\ ProgramAtRest
    /\ probe = NoProbe

EditConfigFile ==
    /\ config_file.mtime < MaxConfigEdits
    /\ \E content \in ConfigContents :
           config_file' = content @@ [mtime |-> config_file.mtime + 1]
    /\ probe' = [fn |-> "edit", at |-> pc[1]]
    /\ UNCHANGED <<config_cache, cache, now, pc, loc, fetched, stamped>>

NextConfig ==
    \/ EditConfigFile
    \/ Step(1)
    \/ \E response \in ConcurrentResponses : FetchStop(1, response)

SpecConfig == InitConfig /\ [][NextConfig]_vars

\* the file on disk cannot be loaded
LoadFails(file) ==
    \/ ~file.ok
    \/ RoutesRaise(Get(file.data, "monitored_routes", <<>>))

\* what is stored is nothing, or a whole configuration with its own grouping
StoredIsLoadable ==
    \/ config_cache = InitConfigCache
    \/ /\ config_cache.mtime > 0
       /\ \E content \in ConfigContents :
              /\ ~LoadFails(content)
              /\ config_cache.data = content.data
              /\ config_cache.grouped =
                     BuildGrouped(<<>>, Get(content.data, "monitored_routes", <<>>))

\* C21: while the file on disk cannot be loaded, no step changes the stored
\* configuration, grouping or modification time, and a cycle that starts
\* then is not ended by an exception and runs with the stored grouping; what
\* is stored is always the empty configuration or one that loaded whole.
C21_FailedLoadKeepsConfig ==
    /\ []StoredIsLoadable
    /\ [][LoadFails(config_file) =>
              /\ config_cache' = config_cache
              /\ (pc[1] = "idle" /\ pc'[1] # "idle" =>
                      /\ pc'[1] = "gcd_data"
                      /\ loc'[1].grouped_config = config_cache.grouped)]_vars

\* after a second configuration was loaded the file was left with a route
\* entry that cannot be grouped, and the cycle that started after that edit
\* runs on the grouping of the second configuration
C21_Witness ==
    /\ pc[1] = "gcd_data"
    /\ probe = [fn |-> "edit", at |-> "idle"]
    /\ config_cache.mtime = 2
    /\ config_file.ok
    /\ LoadFails(config_file)
    /\ config_file.mtime > config_cache.mtime
    /\ config_cache.mtime > 0
    /\ loc[1].grouped_config = config_cache.grouped
    /\ loc[1].grouped_config # <<>>

(***************************************************************************)
(* A cycle runs to its end.  The thread that serves a request runs on      *)
(* until get_data returns or raises, and requests.get returns or raises    *)
(* within api_timeout: each step of a request under way is taken.  Nothing *)
(* makes a further request arrive.                                         *)
(***************************************************************************)
\* the steps of a request under way other than a fetch and the third pass
StraightStep(c) ==
    \/ CacheDataIsNone(c)
    \/ CacheTimestampIsNone(c)
    \/ CacheAge(c)
    \/ CacheHit(c)
    \/ CollectStops(c)
    \/ PutData(c)
    \/ PutTimestamp(c)
    \/ Finish(c)

\* the fetch under way ends, whatever the stop answers
FetchStep(c) == \E response \in Responses : FetchStop(c, response)

\* weak fairness of BuildResults(c), written out: the third pass is enabled
\* exactly while the caller is at it, and is the only step that leaves it
BuildResultsTaken(c) ==
    \/ []<>(pc[c] # "build")
    \/ []<><<pc[c] = "build" /\ pc'[c] # "build">>_vars

SpecFair ==
    /\ Init /\ [][Next]_vars
    /\ WF_vars(StraightStep(1))
    /\ WF_vars(FetchStep(1))
    /\ BuildResultsTaken(1)

\* the cycle of caller c has returned after fetching every configured stop
\* once and storing the payload it returns
MissCycleReturned(c) ==
    /\ pc[c] = "done" /\ loc[c].via = "miss"
    /\ \A s \in ConfiguredStops : fetched[c][s] = 1
    /\ loc[c].ret = Some(loc[c].results)
    /\ cache.data = loc[c].ret
    /\ stamped = loc[c].ret

\* C22: a cycle that has observed a miss goes on, whatever the stops
\* answer, to return the payload it stored in the cache after fetching
\* every configured stop once.
C22_MissCycleReturns == (pc[1] = "collect") ~> MissCycleReturned(1)

(***************************************************************************)
(* Station-wide deviations and the stations a group shows.                 *)
(***************************************************************************)
\* the deviation objects with a message in a list of an answer
WithMessage(devs) ==
    {devs[k] : k \in {k \in 1..Len(devs) :
                        devs[k].type = "object" /\ "message" \in DOMAIN devs[k]}}

\* the station-wide deviations the stop answered with
AnsweredStopDevs(c, stop) ==
    UNION {IF loc[c].site_data[i].key = stop /\ loc[c].received[i].kind = "json"
           THEN WithMessage(Get(loc[c].received[i].body, "stop_deviations", <<>>))
           ELSE {} : i \in 1..Len(loc[c].received)}

\* the stops shown as stations of the group
ShownStops(c, name) ==
    {ShownSites(c, name)[k].key : k \in 1..Len(ShownSites(c, name))}

\* the stops of the group that are not
HiddenStops(c, name) ==
    LET sites == Lookup(loc[c].grouped_config, name)
    IN  {sites[k].key : k \in 1..Len(sites)} \ ShownStops(c, name)

\* the deviations of the departures that match the group's filters
MatchingDepartureDevs(c, name) ==
    LET sites == Lookup(loc[c].grouped_config, name)
    IN  UNION {UNION {WithMessage(Get(Candidates(c, sites[k])[j], "deviations", <<>>)) :
                         j \in 1..Len(Candidates(c, sites[k]))} :
                  k \in 1..Len(sites)}

\* the entry renders the deviation, with some lines of the group or none
Renders(c, e, entry, r) ==
    \E U \in SUBSET OwnLines(c, e.group) :
        entry.message = ExpectedText(r.message, U, Get(r, "consequence", "ALERT"))

\* C23: every group in the result shows a station, and every deviation of
\* the group is a station-wide deviation of a stop shown as a station of
\* the group or a deviation of a departure matching the group's filters;
\* the station-wide deviations of a stop of the group that has no matching
\* departure are not among the group's deviations unless they come from
\* those as well.
C23_StopDevsOnlyOfShownStops ==
    \A c \in Callers :
        pc[c] = "put_data" =>
            \A g \in 1..Len(loc[c].results) :
                LET e == loc[c].results[g]
                    sources == UNION {AnsweredStopDevs(c, stop) :
                                         stop \in ShownStops(c, e.group)}
                               \cup MatchingDepartureDevs(c, e.group)
                IN  /\ e.stations # <<>>
                    /\ Len(e.stations) = Cardinality(ShownStops(c, e.group))
                    /\ \A d \in 1..Len(e.deviations) :
                          \E r \in sources : Renders(c, e, e.deviations[d], r)

\* the shared stop answered with a station-wide alert and with departures
\* of one group only: that group renders the alert, the other group is in
\* the result with its other stop and without the alert
C23_Witness ==
    /\ pc[1] = "put_data"
    /\ Len(loc[1].results) = 2
    /\ \E r \in AnsweredStopDevs(1, 1555) :
          /\ 1555 \in ShownStops(1, loc[1].results[1].group)
          /\ 1555 \in HiddenStops(1, loc[1].results[2].group)
          /\ \E d \in 1..Len(loc[1].results[1].deviations) :
                Renders(1, loc[1].results[1], loc[1].results[1].deviations[d], r)
          /\ \A d \in 1..Len(loc[1].results[2].deviations) :
                ~Renders(1, loc[1].results[2], loc[1].results[2].deviations[d], r)

(***************************************************************************)
(* calculate_delay_status on its own: scheduled and expected strings are   *)
(* written for chosen instants in a chosen zone, then the function runs.   *)
(***************************************************************************)
MaxDelayMinutes == 3

ZoneAware(zone) == zone # "naive"

BadTimestamps == {<<"s", "o", "o", "n">>, <<"2", "5", ":", "0", "0", ":", "0", "0">>}

BaseInstants == {300, 32400}

DelaySeconds == (-(60 * MaxDelayMinutes) - 1)..(60 * MaxDelayMinutes + 1)

InitDelay ==
    /\ ProgramAtRest
    /\ \/ \E t \in BaseInstants, d \in DelaySeconds, z1 \in Zones, z2 \in Zones :
            probe = [fn |-> "calculate_delay_status", done |-> FALSE,
                     scheduled |-> Some(IsoAt(t, z1)),
                     expected |-> Some(IsoAt(t + d, z2)),
                     defined |-> (ZoneAware(z1) = ZoneAware(z2)),
                     s_instant |-> t, e_instant |-> t + d]
       \/ \E t \in BaseInstants, z1 \in Zones, e \in {None, Some(<<>>)} :
            probe = [fn |-> "calculate_delay_status", done |-> FALSE,
                     scheduled |-> Some(IsoAt(t, z1)), expected |-> e,
                     defined |-> TRUE, s_instant |-> t, e_instant |-> t]
       \/ \E t \in BaseInstants, b \in BadTimestamps, first \in BOOLEAN :
            probe = [fn |-> "calculate_delay_status", done |-> FALSE,
                     scheduled |-> Some(IF first THEN b ELSE IsoAt(t, "Z")),
                     expected |-> Some(IF first THEN IsoAt(t, "Z") ELSE b),
                     defined |-> FALSE, s_instant |-> t, e_instant |-> t]

CallDelay ==
    /\ probe.fn = "calculate_delay_status" /\ ~probe.done
    /\ probe' = [probe EXCEPT !.done = TRUE] @@
                [ret |-> calculate_delay_status(probe.scheduled, probe.expected)]
    /\ UNCHANGED programVars

NextDelay == CallDelay

SpecDelay == InitDelay /\ [][NextDelay]_vars

\* whole minutes of a delta in seconds, toward zero, as the claim words it
WholeMinutes(delta) ==
    CHOOSE n \in (-(MaxDelayMinutes + 2))..(MaxDelayMinutes + 2) :
        /\ n * delta >= 0
        /\ (IF delta < 0 THEN -delta ELSE delta) >= 60 * (IF n < 0 THEN -n ELSE n)
        /\ (IF delta < 0 THEN -delta ELSE delta) < 60 * ((IF n < 0 THEN -n ELSE n) + 1)

\* C8: for parseable scheduled and expected instants whose difference delta
\* is defined, the status is "+N min" when delta > 1 minute, "N min" (N
\* negative) when delta < -1 minute and "On Time" otherwise, N being the
\* whole minutes of delta truncated toward zero; an absent expected time
\* counts as the scheduled one.
C8_DelayStatus ==
    (probe.fn = "calculate_delay_status" /\ probe.done /\ probe.defined) =>
        LET delta == probe.e_instant - probe.s_instant
            n == WholeMinutes(delta)
        IN  /\ ~probe.ret.raised
            /\ probe.ret.status =
                 Some(IF delta > 60 THEN "+" \o ToString(n) \o " min"
                      ELSE IF delta < -60 THEN ToString(n) \o " min"
                      ELSE "On Time")

\* a delay of -90 seconds has been given its status, "-1 min"
C8_Witness ==
    /\ probe.fn = "calculate_delay_status" /\ probe.done /\ probe.defined
    /\ probe.e_instant - probe.s_instant = -90
    /\ probe.ret.status = Some("-1 min")

(***************************************************************************)
(* matches_filter on its own: the filters are those get_config builds for  *)
(* one stop of one group from a list of routes.                            *)
(***************************************************************************)
MaxFilters == 2

RouteLines == {IntVal(30), StrVal(<<"3", "0">>), StrVal(<<"4">>)}

RouteDests == {<<>>, <<"s", "o">>, <<"S", "o">>, <<"o", "l">>}

DepartureLines == {StrVal(<<"3", "0">>), IntVal(30), IntVal(4), NoneVal}

Destinations == {<<>>, <<"S", "o", "l">>, <<"s", "O">>, <<"o", "s">>, <<"L", "o">>}

ProbeRoutes ==
    {[group |-> "TO WORK", id |-> 1555, line |-> l, dest |-> d] :
        l \in RouteLines, d \in RouteDests}

SeqsUpTo(S, n) == UNION {[1..k -> S] : k \in 0..n}

\* the filters get_config stores for the one stop of the one group
FiltersOf(routes) ==
    IF routes = <<>> THEN <<>>
    ELSE BuildGrouped(<<>>, routes)[1].val[1].val.filters

InitMatch ==
    /\ ProgramAtRest
    /\ \E routes \in SeqsUpTo(ProbeRoutes, MaxFilters),
          l \in DepartureLines, d \in Destinations :
            probe = [fn |-> "matches_filter", done |-> FALSE, routes |-> routes,
                     line_num |-> l, destination |-> d,
                     filters |-> FiltersOf(routes)]

CallMatch ==
    /\ probe.fn = "matches_filter" /\ ~probe.done
    /\ probe' = [probe EXCEPT !.done = TRUE] @@
                [ret |-> matches_filter(probe.line_num, probe.destination,
                                        probe.filters)]
    /\ UNCHANGED programVars

NextMatch == CallMatch

SpecMatch == InitMatch /\ [][NextMatch]_vars

\* a occurs in b when the case of letters is ignored
OccursIgnoringCase(a, b) ==
    \E off \in 0..(Len(b) - Len(a)) :
        \A k \in 1..Len(a) : LowerChar(a[k]) = LowerChar(b[off + k])

Orderings(n) == {p \in [1..n -> 1..n] : \A i, j \in 1..n : p[i] = p[j] => i = j}

\* C9: matches_filter is true exactly when some filter has the line equal
\* to the string form of the line number and a destination part that occurs,
\* ignoring case, in the destination; every order of the filter list gives
\* the same answer, and an empty list never matches.
C9_MatchesFilter ==
    (probe.fn = "matches_filter" /\ probe.done) =>
        LET fs == probe.filters
        IN  /\ probe.ret <=>
                 \E i \in 1..Len(fs) :
                    /\ fs[i].line = Str(probe.line_num)
                    /\ OccursIgnoringCase(fs[i].dest, probe.destination)
            /\ \A p \in Orderings(Len(fs)) :
                 matches_filter(probe.line_num, probe.destination,
                                [i \in 1..Len(fs) |-> fs[p[i]]]) = probe.ret
            /\ fs = <<>> => ~probe.ret

\* a destination written with capitals matched the second of two filters,
\* whose destination part came from a route written with a capital
C9_Witness ==
    /\ probe.fn = "matches_filter" /\ probe.done /\ probe.ret
    /\ Len(probe.filters) = 2
    /\ probe.destination # Lower(probe.destination)
    /\ probe.routes[2].dest # Lower(probe.routes[2].dest)
    /\ probe.line_num.t = "int"
    /\ ~matches_filter(probe.line_num, probe.destination, <<probe.filters[1]>>)

=============================================================================
